---------------------------- MODULE Spec2Model ----------------------------
(***************************************************************************)
(* GoodBooks API (FastAPI over MongoDB).                                   *)
(*                                                                         *)
(*   src/main.py          the application: routes, auth dependency,        *)
(*                        logging middleware                               *)
(*   src/load_data.py     the one-shot ingestion script                    *)
(*   src/rate_limiter.py  RateLimiter and rate_limit_middleware            *)
(*                                                                         *)
(* The document store is modelled as five collections, each the bag of     *)
(* its documents (the store promises no order among them), plus the set    *)
(* of unique indexes that exist.  The ingestion script and the API are     *)
(* separate programs over the same store; the script is a one-shot job     *)
(* that runs before the API serves.                                        *)
(*                                                                         *)
(* Specifications:                                                         *)
(*   SpecLoad   the ingestion script, from a store that is empty or holds  *)
(*              what an earlier run left                                   *)
(*   Spec       the API on a store the ingestion script left: POST         *)
(*              /ratings (requests handled concurrently), ratings summary, *)
(*              recommendations                                            *)
(*   SpecQuery  one request to a paginated read endpoint (list_books,      *)
(*              get_author_books, list_tags)                               *)
(*   SpecRate   rate_limit_middleware over the module's RateLimiter, with  *)
(*              requests handled concurrently and a clock                  *)
(*   SpecApp    requests to the application with the middlewares that      *)
(*              main.py registers                                          *)
(***************************************************************************)
EXTENDS Integers, Sequences, FiniteSets, Bags, TLC

(***************************************************************************)
(* Bounds of the model                                                     *)
(***************************************************************************)
MaxRequests == 2      \* POST /ratings requests accepted in one behaviour
MaxTopK == 2          \* top_k values 1..MaxTopK (the code allows 1..100)

Users == {1, 2}       \* user ids that appear in requests
BookIds == {1, 4}     \* book ids that appear in requests
Slots == {1, 2}       \* requests being handled at the same time

(***************************************************************************)
(* Program constants                                                       *)
(***************************************************************************)
RatingMin == 1        \* RatingIn.rating: Field(ge=1, le=5)
RatingMax == 5
LikedMin == 4         \* get_recommendations: {"rating": {"$gte": 4}}
API_KEY == "dev-key-123"

CollectionNames == <<"books", "ratings", "tags", "book_tags", "to_read">>

(***************************************************************************)
(* Generic helpers                                                         *)
(***************************************************************************)
Range(s) == {s[i] : i \in DOMAIN s}

Min2(a, b) == IF a < b THEN a ELSE b

\* the bag of the elements of a sequence
RECURSIVE SeqToBag(_)
SeqToBag(s) ==
    IF s = <<>> THEN EmptyBag ELSE SetToBag({Head(s)}) (+) SeqToBag(Tail(s))

(***************************************************************************)
(* Documents, and the CSV sources read by the ingestion script.  Each      *)
(* read_csv either raises or yields one of these record lists.             *)
(***************************************************************************)
Book(id, gid, title, authors, avg, cnt, year) ==
    [book_id |-> id, goodreads_book_id |-> gid, title |-> title,
     authors |-> authors, average_rating |-> avg, ratings_count |-> cnt,
     original_publication_year |-> year]

Rating(u, b, r) == [user_id |-> u, book_id |-> b, rating |-> r]

Tag(id, name) == [tag_id |-> id, tag_name |-> name]

BookTag(gid, tid, n) == [goodreads_book_id |-> gid, tag_id |-> tid, count |-> n]

ToRead(u, b) == [user_id |-> u, book_id |-> b]

\* average_rating is kept in hundredths (4.25 is 425); texts are sequences
\* of characters
BooksCsv ==
    << Book(1, 11, <<"A", "b">>, <<"c", "a">>, 425, 30, 2001),
       Book(2, 12, <<"b", "a">>, <<"C", "d">>, 425, 10, 1999),
       Book(3, 13, <<"d">>,      <<"a", "b">>, 390, 30, 2005) >>

TagsCsv == << Tag(1, "x"), Tag(2, "y") >>

BookTagsCsv == << BookTag(11, 1, 5), BookTag(12, 1, 2) >>

CsvChoices(c) ==
    CASE c = "books"     -> { BooksCsv }
      [] c = "ratings"   -> { <<>>,
                              << Rating(1, 1, 4) >>,
                              << Rating(1, 2, 2), Rating(2, 1, 5) >> }
      [] c = "tags"      -> { TagsCsv }
      [] c = "book_tags" -> { BookTagsCsv }
      [] c = "to_read"   -> { << ToRead(1, 2) >>,
                              << ToRead(1, 2), ToRead(1, 2) >> }

(***************************************************************************)
(* Unique indexes: the key of a document under each of them.               *)
(* (The non-unique indexes of create_indexes change no result.)            *)
(***************************************************************************)
UniqueIndexes == <<"books", "ratings", "tags", "to_read">>

IndexKey(c, doc) ==
    CASE c = "books"   -> << doc.book_id >>
      [] c = "ratings" -> << doc.user_id, doc.book_id >>
      [] c = "tags"    -> << doc.tag_id >>
      [] c = "to_read" -> << doc.user_id, doc.book_id >>
      [] OTHER         -> << >>

\* the documents of a bag that have the key of doc under c's unique index
SameKey(c, docs, doc) ==
    {d \in BagToSet(docs) : IndexKey(c, d) = IndexKey(c, doc)}

HasDuplicateKey(c, docs) ==
    \E d \in BagToSet(docs) :
        \/ CopiesIn(d, docs) > 1
        \/ SameKey(c, docs, d) # {d}

VARIABLES
    db,             \* collection name -> bag of documents
    indexes,        \* the unique indexes that exist (collection names)
    loader,         \* the ingestion script's run
    reqs,           \* slot -> the POST /ratings request in progress there
    nreq,           \* requests accepted so far
    resp,           \* the last response sent
    limiter,        \* rate_limiter.requests: key -> list of timestamps
    now,            \* time.time(), in seconds
    calls,          \* rate_limit_middleware calls awaiting call_next
    hits            \* (ip, path) -> requests the application has received

vars == << db, indexes, loader, reqs, nreq, resp, limiter, now, calls, hits >>

\* the state of the store and of POST /ratings
storeVars == << db, indexes, loader, reqs, nreq >>

\* the state of the rate limiter and of the application's request counts
web == << limiter, now, calls, hits >>

NoReq == [pc |-> "idle", user_id |-> 0, book_id |-> 0, rating |-> 0]

NoResp == [kind |-> "none"]

NotLoaded == [collection |-> "", read |-> FALSE, ok |-> FALSE, records |-> <<>>]

LoaderIdle == [pc |-> "idle", next |-> 1, success_count |-> 0,
               last |-> NotLoaded, exit |-> -1]

\* What the store may hold when the ingestion script starts: nothing, or
\* what an earlier run left (with the indexes if that run built them).
InitialStores ==
    { [c \in Range(CollectionNames) |-> EmptyBag],
      [c \in Range(CollectionNames) |->
          CASE c = "books"     -> SeqToBag(<< Book(9, 19, <<"d">>, <<"a", "b">>,
                                                   390, 30, 2005) >>)
            [] c = "ratings"   -> SeqToBag(<< Rating(2, 9, 1) >>)
            [] c = "tags"      -> SeqToBag(TagsCsv)
            [] c = "book_tags" -> EmptyBag
            [] c = "to_read"   -> SeqToBag(<< ToRead(2, 9) >>)] }

\* What the store may hold when the API serves: the books are loaded, the
\* ratings are one of the CSV sources, and the indexes are all built (the
\* script succeeded) or none is (it ended with errors after the ratings).
ServedStores ==
    { [c \in Range(CollectionNames) |->
          CASE c = "books"     -> SeqToBag(BooksCsv)
            [] c = "ratings"   -> SeqToBag(r)
            [] c = "tags"      -> SeqToBag(TagsCsv)
            [] c = "book_tags" -> SeqToBag(BookTagsCsv)
            [] c = "to_read"   -> EmptyBag] : r \in CsvChoices("ratings") }

(***************************************************************************)
(* rate_limiter.py                                                         *)
(***************************************************************************)
Ips == {"10.0.0.1", "10.0.0.2"}
Paths == {"/books", "/healthz"}

\* the requests tried: any path from the first address, and a few
\* rate-limited ones from the second
Tried == {<< ip, path >> \in Ips \X Paths : ip = "10.0.0.1" \/ path = "/books"}

\* rate_limit_middleware: limit=60, window=60
RateLimit == 60
RateWindow == 60

\* the paths rate_limit_middleware lets through unchecked
ExemptPaths == {"/healthz", "/metrics", "/docs", "/openapi.json"}

\* f"{client_ip}:{request.url.path}" (a path starts with "/" and an address
\* holds none, so the key names one address and one path)
RateLimitKey(ip, path) == << ip, path >>

RateKeys == {RateLimitKey(ip, path) : ip \in Ips, path \in Paths}

NoCall == [pc |-> "idle", ip |-> "", path |-> ""]

WebIdle ==
    /\ limiter = [k \in RateKeys |-> <<>>]
    /\ now = 0
    /\ calls = [c \in Slots |-> NoCall]
    /\ hits = [k \in RateKeys |-> 0]

InitLoad ==
    /\ WebIdle
    /\ db \in InitialStores
    /\ indexes \in {{}, Range(UniqueIndexes)}
    /\ loader = LoaderIdle
    /\ reqs = [s \in Slots |-> NoReq]
    /\ nreq = 0
    /\ resp = NoResp

Init ==
    /\ WebIdle
    /\ db \in ServedStores
    /\ indexes \in {{}, Range(UniqueIndexes)}
    /\ loader = [LoaderIdle EXCEPT !.pc = "exited"]
    /\ reqs = [s \in Slots |-> NoReq]
    /\ nreq = 0
    /\ resp = NoResp

(***************************************************************************)
(* load_data.py                                                            *)
(***************************************************************************)
\* insert_many (ordered): documents are inserted in order; with a unique
\* index on the collection the first document whose key is already present
\* raises BulkWriteError and nothing after it is inserted.
RECURSIVE InsertMany(_, _, _, _)
InsertMany(c, docs, records, unique) ==
    IF records = <<>> THEN [docs |-> docs, ok |-> TRUE]
    ELSE IF unique /\ SameKey(c, docs, Head(records)) # {}
         THEN [docs |-> docs, ok |-> FALSE]
         ELSE InsertMany(c, docs (+) SetToBag({Head(records)}), Tail(records), unique)

\* load_collection without its delete_many
LoadedDocs_NoDelete(c, old, records, unique) ==
    IF records = <<>> THEN [docs |-> old, ok |-> TRUE]
    ELSE InsertMany(c, old, records, unique)

\* load_collection after read_csv returned `records`, on a collection that
\* holds `old`: delete_many({}), then insert_many(records) unless records
\* is empty; any exception is caught and reported as False.
LoadedDocs(c, old, records, unique) ==
    IF records = <<>> THEN [docs |-> EmptyBag, ok |-> TRUE]
    ELSE InsertMany(c, EmptyBag, records, unique)

\* create_indexes: the unique indexes in the order the script builds them,
\* from the i-th on.  Building a unique index over documents that share a
\* key raises, which ends the script with the indexes built so far.
RECURSIVE CreateIndexes(_, _, _)
CreateIndexes(store, built, i) ==
    IF i > Len(UniqueIndexes) THEN [indexes |-> built, ok |-> TRUE]
    ELSE IF HasDuplicateKey(UniqueIndexes[i], store[UniqueIndexes[i]])
         THEN [indexes |-> built, ok |-> FALSE]
         ELSE CreateIndexes(store, built \cup {UniqueIndexes[i]}, i + 1)

\* main(): connect, success_count = 0
MainStart ==
    /\ loader.pc = "idle"
    /\ loader' = [loader EXCEPT !.pc = "loading"]
    /\ UNCHANGED << web, db, indexes, reqs, nreq, resp >>

\* one iteration of main's loop: load_collection whose read_csv raises
LoadCollectionReadFails ==
    /\ loader.pc = "loading"
    /\ loader.next <= Len(CollectionNames)
    /\ loader' = [loader EXCEPT
                    !.next = @ + 1,
                    !.last = [collection |-> CollectionNames[loader.next],
                              read |-> FALSE, ok |-> FALSE, records |-> <<>>]]
    /\ UNCHANGED << web, db, indexes, reqs, nreq, resp >>

\* one iteration of main's loop: load_collection that read `records`
LoadCollection ==
    /\ loader.pc = "loading"
    /\ loader.next <= Len(CollectionNames)
    /\ LET c == CollectionNames[loader.next] IN
       \E records \in CsvChoices(c) :
          LET r == LoadedDocs(c, db[c], records, c \in indexes) IN
          /\ db' = [db EXCEPT ![c] = r.docs]
          /\ loader' = [loader EXCEPT
                          !.next = @ + 1,
                          !.success_count = IF r.ok THEN @ + 1 ELSE @,
                          !.last = [collection |-> c, read |-> TRUE,
                                    ok |-> r.ok, records |-> records]]
    /\ UNCHANGED << web, indexes, reqs, nreq, resp >>

\* main after the loop: every collection loaded, so create_indexes
MainCreateIndexes ==
    /\ loader.pc = "loading"
    /\ loader.next > Len(CollectionNames)
    /\ loader.success_count = Len(CollectionNames)
    /\ LET r == CreateIndexes(db, indexes, 1) IN
       /\ indexes' = r.indexes
       /\ loader' = [loader EXCEPT !.pc = "exited",
                                   !.exit = IF r.ok THEN 0 ELSE 1]
    /\ UNCHANGED << web, db, reqs, nreq, resp >>

\* main after the loop: some collection failed, so sys.exit(1)
MainExitWithErrors ==
    /\ loader.pc = "loading"
    /\ loader.next > Len(CollectionNames)
    /\ loader.success_count # Len(CollectionNames)
    /\ loader' = [loader EXCEPT !.pc = "exited", !.exit = 1]
    /\ UNCHANGED << web, db, indexes, reqs, nreq, resp >>

(***************************************************************************)
(* main.py: POST /ratings                                                  *)
(***************************************************************************)
NoHeader == "<absent>"
Keys == {NoHeader, "bad-key", API_KEY}
RatingInputs == {RatingMin - 1, 2, RatingMax, RatingMax + 1}

\* require_api_key
RequireApiKey(x_api_key) == x_api_key = API_KEY

\* RatingIn without the upper bound
ValidRating_NoUpperBound(r) == r >= RatingMin

\* RatingIn: rating: int = Field(ge=1, le=5)
ValidRating(r) == r >= RatingMin /\ r <= RatingMax

\* What FastAPI answers before the handler body runs: a required header
\* that is absent is a request validation error (422) and the dependency
\* is not called; a dependency that raises ends the request (401); an
\* invalid body is a request validation error (422).  0 = the handler runs.
Precheck(key, rating) ==
    IF key = NoHeader THEN 422
    ELSE IF ~RequireApiKey(key) THEN 401
    ELSE IF ~ValidRating(rating) THEN 422
    ELSE 0

BookExists(b) == \E d \in BagToSet(db["books"]) : d.book_id = b

\* the ratings documents matching {"user_id": u, "book_id": b}
Matching(u, b) ==
    {d \in BagToSet(db["ratings"]) : d.user_id = u /\ d.book_id = b}

\* docs with one copy of old replaced by new
ReplaceOne(docs, old, new) ==
    (docs (-) SetToBag({old})) (+) SetToBag({new})

RatingResponse(key, u, b, r, status, result) ==
    [kind |-> "rating", key |-> key, user_id |-> u, book_id |-> b,
     rating |-> r, status |-> status, result |-> result]

\* A request arrives: dependencies and body validation; a request that
\* fails them is answered at once.
PostRating(s) ==
    /\ reqs[s].pc = "idle"
    /\ nreq < MaxRequests
    /\ nreq' = nreq + 1
    /\ \E key \in Keys, u \in Users, b \in BookIds, r \in RatingInputs :
         LET st == Precheck(key, r) IN
         IF st = 0
         THEN /\ reqs' = [reqs EXCEPT ![s] = [pc |-> "find_book", user_id |-> u,
                                              book_id |-> b, rating |-> r]]
              /\ resp' = resp
         ELSE /\ resp' = RatingResponse(key, u, b, r, st, "")
              /\ reqs' = reqs
    /\ UNCHANGED << web, db, indexes, loader >>

\* db.books.find_one({"book_id": rating.book_id}); 404 if there is none
FindBook(s) ==
    /\ reqs[s].pc = "find_book"
    /\ IF BookExists(reqs[s].book_id)
       THEN /\ reqs' = [reqs EXCEPT ![s].pc = "update"]
            /\ resp' = resp
       ELSE /\ reqs' = [reqs EXCEPT ![s] = NoReq]
            /\ resp' = RatingResponse(API_KEY, reqs[s].user_id, reqs[s].book_id,
                                      reqs[s].rating, 404, "")
    /\ UNCHANGED << web, db, indexes, loader, nreq >>

\* update_one(..., upsert=True), a document matches: $set on one matching
\* document; upserted_id is None, so "updated".  (With the unique index an
\* insert that meets a duplicate key is retried by the store as this
\* update.)
UpdateMatched(s) ==
    /\ reqs[s].pc \in {"update", "insert"}
    /\ reqs[s].pc = "insert" => "ratings" \in indexes
    /\ \E d \in Matching(reqs[s].user_id, reqs[s].book_id) :
         db' = [db EXCEPT !["ratings"] =
                   ReplaceOne(@, d, Rating(reqs[s].user_id, reqs[s].book_id,
                                           reqs[s].rating))]
    /\ reqs' = [reqs EXCEPT ![s] = NoReq]
    /\ resp' = RatingResponse(API_KEY, reqs[s].user_id, reqs[s].book_id,
                              reqs[s].rating, 200, "updated")
    /\ UNCHANGED << web, indexes, loader, nreq >>

\* update_one(..., upsert=True), no document matches: the store goes on to
\* insert a new document.
UpdateNoMatch(s) ==
    /\ reqs[s].pc = "update"
    /\ Matching(reqs[s].user_id, reqs[s].book_id) = {}
    /\ reqs' = [reqs EXCEPT ![s].pc = "insert"]
    /\ UNCHANGED << web, db, indexes, loader, nreq, resp >>

\* the insert of the upsert; upserted_id is set, so "created".  Without a
\* unique index on (user_id, book_id) the store inserts even when another
\* upsert has inserted the pair since this one found no match.
UpsertInsert(s) ==
    /\ reqs[s].pc = "insert"
    /\ "ratings" \in indexes => Matching(reqs[s].user_id, reqs[s].book_id) = {}
    /\ db' = [db EXCEPT !["ratings"] =
                @ (+) SetToBag({Rating(reqs[s].user_id, reqs[s].book_id,
                                       reqs[s].rating)})]
    /\ reqs' = [reqs EXCEPT ![s] = NoReq]
    /\ resp' = RatingResponse(API_KEY, reqs[s].user_id, reqs[s].book_id,
                              reqs[s].rating, 200, "created")
    /\ UNCHANGED << web, indexes, loader, nreq >>

(***************************************************************************)
(* main.py: the read endpoints over ratings                                *)
(***************************************************************************)
\* collection.find(filter): the documents of a bag that satisfy the filter,
\* as a bag; matches[d] tells whether document d satisfies it
Find(docs, matches) ==
    [d \in {x \in BagToSet(docs) : matches[x]} |-> CopiesIn(d, docs)]

\* a filter or a sort key, over the documents of a bag
Over(docs) == BagToSet(docs)

\* $sum of the rating field over a bag of ratings documents
RECURSIVE SumRatings(_)
SumRatings(docs) ==
    IF BagToSet(docs) = {} THEN 0
    ELSE LET d == CHOOSE x \in BagToSet(docs) : TRUE IN
         d.rating * CopiesIn(d, docs)
           + SumRatings([x \in BagToSet(docs) \ {d} |-> CopiesIn(x, docs)])

\* round(sum / count, 2) in hundredths (round half to even)
RoundedAverage(sum, count) ==
    LET q == (100 * sum) \div count
        r == (100 * sum) % count
    IN  IF 2 * r < count THEN q
        ELSE IF 2 * r > count THEN q + 1
        ELSE IF q % 2 = 0 THEN q ELSE q + 1

\* histogram[rating] = 1 in place of histogram[rating] += 1
Histogram_Assign(docs) ==
    [k \in RatingMin..RatingMax |->
        IF \E d \in BagToSet(docs) : d.rating = k THEN 1 ELSE 0]

\* histogram = {1: 0, ..., 5: 0}; for rating in stats["histogram"]:
\* histogram[rating] += 1
Histogram(docs) ==
    [k \in RatingMin..RatingMax |->
        BagCardinality(Find(docs, [d \in Over(docs) |-> d.rating = k]))]

\* the RatingSummary that get_ratings_summary builds from the ratings
\* documents of the book
RatingSummary(b, docs) ==
    IF BagToSet(docs) = {}
    THEN [kind |-> "summary", status |-> 200, book_id |-> b,
          average_rating |-> 0, ratings_count |-> 0,
          histogram |-> [k \in RatingMin..RatingMax |-> 0]]
    ELSE [kind |-> "summary", status |-> 200, book_id |-> b,
          average_rating |-> RoundedAverage(SumRatings(docs), BagCardinality(docs)),
          ratings_count |-> BagCardinality(docs),
          histogram |-> Histogram(docs)]

\* GET /books/{book_id}/ratings/summary
GetRatingsSummary ==
    \E b \in BookIds :
      /\ resp' = IF ~BookExists(b)
                 THEN [kind |-> "summary", status |-> 404, book_id |-> b]
                 ELSE RatingSummary(b, Find(db["ratings"],
                                         [d \in Over(db["ratings"]) |-> d.book_id = b]))
      /\ UNCHANGED << web, db, indexes, loader, reqs, nreq >>

\* cursor.sort(field, direction): every order of the documents in which the
\* key never increases (direction -1) or never decreases (direction 1)
Sorted(docs, key, direction) ==
    LET n == BagCardinality(docs) IN
    {q \in [1..n -> BagToSet(docs)] :
        /\ SeqToBag(q) = docs
        /\ \A i \in 1..n : \A j \in i..n :
              IF direction = -1 THEN key[q[i]] >= key[q[j]]
                                ELSE key[q[i]] <= key[q[j]]}

\* cursor.limit(k)
Limit(q, k) == SubSeq(q, 1, Min2(k, Len(q)))

\* the user's ratings that get_recommendations reads:
\* find({"user_id": user_id, "rating": {"$gte": 4}})
UserRatings(u) ==
    Find(db["ratings"],
         [d \in Over(db["ratings"]) |-> d.user_id = u /\ d.rating >= LikedMin])

\* rated_book_ids = [r["book_id"] for r in user_ratings]
RatedBookIds(u) == {d.book_id : d \in BagToSet(UserRatings(u))}

\* GET /users/{user_id}/recommendations
GetRecommendations ==
    \E u \in Users, top_k \in 1..MaxTopK :
      /\ IF BagToSet(UserRatings(u)) = {}
         THEN \E q \in Sorted(db["books"],
                             [d \in Over(db["books"]) |-> d.ratings_count], -1) :
                resp' = [kind |-> "recommendations", status |-> 200,
                         user_id |-> u, top_k |-> top_k, type |-> "popular",
                         recommendations |-> Limit(q, top_k)]
         ELSE \E q \in Sorted(Find(db["books"],
                                   [d \in Over(db["books"]) |->
                                       d.book_id \notin RatedBookIds(u)]),
                              [d \in Over(db["books"]) |-> d.average_rating],
                              -1) :
                resp' = [kind |-> "recommendations", status |-> 200,
                         user_id |-> u, top_k |-> top_k,
                         type |-> "based_on_ratings",
                         recommendations |-> Limit(q, top_k)]
      /\ UNCHANGED << web, db, indexes, loader, reqs, nreq >>

(***************************************************************************)
(* main.py: the paginated endpoints                                        *)
(***************************************************************************)
Lower(ch) ==
    CASE ch = "A" -> "a" [] ch = "B" -> "b" [] ch = "C" -> "c"
      [] ch = "D" -> "d" [] OTHER -> ch

LowerText(t) == [i \in DOMAIN t |-> Lower(t[i])]

\* the order of the characters (upper case before lower case, as in the
\* store's binary comparison of strings)
CharCode(ch) ==
    CASE ch = "A" -> 1 [] ch = "B" -> 2 [] ch = "C" -> 3 [] ch = "D" -> 4
      [] ch = "a" -> 5 [] ch = "b" -> 6 [] ch = "c" -> 7 [] ch = "d" -> 8

\* a number that orders texts of at most two characters as the store
\* orders strings
TextRank(t) ==
    (IF Len(t) >= 1 THEN 9 * CharCode(t[1]) ELSE 0)
      + (IF Len(t) >= 2 THEN CharCode(t[2]) ELSE 0)

\* {"$regex": q, "$options": "i"} for a q without metacharacters: q occurs
\* in the text, letter case ignored
RegexI(q, t) ==
    \E i \in 0..(Len(t) - Len(q)) :
        SubSeq(LowerText(t), i + 1, i + Len(q)) = LowerText(q)

\* an absent query parameter (None), and a null original_publication_year
\* (NaN in the CSV, stored as None)
None == -1
NoYear == 0

\* list_books: filter_query applied to a book
BookFilter(p, d) ==
    /\ p.q # <<>> => (RegexI(p.q, d.title) \/ RegexI(p.q, d.authors))
    /\ p.min_avg # None => d.average_rating >= p.min_avg
    /\ p.year_from # None =>
          (d.original_publication_year # NoYear
             /\ d.original_publication_year >= p.year_from)
    /\ p.year_to # None =>
          (d.original_publication_year # NoYear
             /\ d.original_publication_year <= p.year_to)

\* list_books: sort_map
SortField(sort, d) ==
    CASE sort = "avg"           -> d.average_rating
      [] sort = "ratings_count" -> d.ratings_count
      [] sort = "year"          -> d.original_publication_year
      [] sort = "title"         -> TextRank(d.title)

\* skip = page * page_size
SkipCount_NoMinusOne(page, page_size) == page * page_size

\* skip = (page - 1) * page_size
SkipCount(page, page_size) == (page - 1) * page_size

\* cursor.skip(n)
Skip(q, n) == SubSeq(q, n + 1, Len(q))

\* the PaginatedResponse
Page(endpoint, p, items, total) ==
    [kind |-> "page", endpoint |-> endpoint, params |-> p, items |-> items,
     page |-> p.page, page_size |-> p.page_size, total |-> total]

\* bounds on the query parameters tried
MaxPage == 3
MaxPageSize == 2

BookParams ==
    [q : {<<>>, <<"a">>, <<"B">>}, min_avg : {None, 400},
     year_from : {None, 2000}, year_to : {None, 2003},
     sort : {"avg", "ratings_count", "year", "title"}, order : {"asc", "desc"},
     page : 1..MaxPage, page_size : 1..MaxPageSize]

\* GET /books
ListBooks ==
    \E p \in BookParams :
      /\ resp = NoResp
      /\ LET found == Find(db["books"],
                            [d \in Over(db["books"]) |-> BookFilter(p, d)])
             total == BagCardinality(found)
             sort_direction == IF p.order = "desc" THEN -1 ELSE 1
         IN  \E q \in Sorted(found, [d \in Over(found) |-> SortField(p.sort, d)],
                             sort_direction) :
                resp' = Page("books", p,
                             Limit(Skip(q, SkipCount(p.page, p.page_size)),
                                   p.page_size),
                             total)
      /\ UNCHANGED << web, db, indexes, loader, reqs, nreq >>

AuthorParams ==
    [author_name : {<<"a">>, <<"C">>, <<"b", "b">>},
     page : 1..MaxPage, page_size : 1..MaxPageSize]

\* GET /authors/{author_name}/books
GetAuthorBooks ==
    \E p \in AuthorParams :
      /\ resp = NoResp
      /\ LET found == Find(db["books"],
                            [d \in Over(db["books"]) |->
                                RegexI(p.author_name, d.authors)])
             total == BagCardinality(found)
         IN  \E q \in Sorted(found, [d \in Over(found) |-> d.average_rating], -1) :
                resp' = Page("authors", p,
                             Limit(Skip(q, SkipCount(p.page, p.page_size)),
                                   p.page_size),
                             total)
      /\ UNCHANGED << web, db, indexes, loader, reqs, nreq >>

\* list_tags: $lookup of book_tags on tag_id, book_count = $size of the
\* links, and the $project
TagsWithCounts ==
    LET WithCount(t) ==
          [tag_id |-> t.tag_id, tag_name |-> t.tag_name,
           book_count |-> BagCardinality(Find(db["book_tags"],
                              [l \in Over(db["book_tags"]) |-> l.tag_id = t.tag_id]))]
    IN  [d \in {WithCount(t) : t \in BagToSet(db["tags"])} |->
            BagCardinality(Find(db["tags"],
                                [t \in Over(db["tags"]) |-> WithCount(t) = d]))]

TagParams == [page : 1..MaxPage, page_size : 1..MaxPageSize]

\* GET /tags
ListTags ==
    \E p \in TagParams :
      LET total == BagCardinality(db["tags"]) IN
      /\ resp = NoResp
      /\ \E q \in Sorted(TagsWithCounts,
                         [d \in Over(TagsWithCounts) |-> d.book_count], -1) :
            resp' = Page("tags", p,
                         Limit(Skip(q, SkipCount(p.page, p.page_size)), p.page_size),
                         total)
      /\ UNCHANGED << web, db, indexes, loader, reqs, nreq >>

\* the stores the paginated endpoints are tried on (these endpoints only
\* read: each behaviour of SpecQuery answers one request on one store)
QueryStores ==
    { [c \in Range(CollectionNames) |->
          CASE c = "books"     -> SeqToBag(BooksCsv \o extra)
            [] c = "ratings"   -> EmptyBag
            [] c = "tags"      -> SeqToBag(TagsCsv \o << Tag(3, "z") >>)
            [] c = "book_tags" -> SeqToBag(BookTagsCsv \o links)
            [] c = "to_read"   -> EmptyBag] :
      extra \in { <<>>, << Book(4, 14, <<"a">>, <<"D">>, 300, 5, NoYear) >> },
      links \in { <<>>, << BookTag(13, 2, 7), BookTag(13, 2, 7) >> } }

InitQuery ==
    /\ WebIdle
    /\ db \in QueryStores
    /\ indexes = {}
    /\ loader = [LoaderIdle EXCEPT !.pc = "exited"]
    /\ reqs = [s \in Slots |-> NoReq]
    /\ nreq = 0
    /\ resp = NoResp

NextQuery ==
    \/ ListBooks
    \/ GetAuthorBooks
    \/ ListTags

SpecQuery == InitQuery /\ [][NextQuery]_vars

(***************************************************************************)
(* rate_limiter.py: RateLimiter and rate_limit_middleware                  *)
(***************************************************************************)
\* the list comprehension of is_rate_limited:
\* [req_time for req_time in self.requests[key] if now - req_time < window]
Recent(log, t, window) == SelectSeq(log, LAMBDA req_time : t - req_time < window)

\* is_rate_limited without self.requests[key].append(now)
IsRateLimited_NoAppend(log, t, limit, window) ==
    IF Len(Recent(log, t, window)) >= limit
    THEN [limited |-> TRUE, log |-> Recent(log, t, window)]
    ELSE [limited |-> FALSE, log |-> Recent(log, t, window)]

\* is_rate_limited that appends the timestamp of a rejected call too
IsRateLimited_RecordsRejected(log, t, limit, window) ==
    IF Len(Recent(log, t, window)) >= limit
    THEN [limited |-> TRUE, log |-> Append(Recent(log, t, window), t)]
    ELSE [limited |-> FALSE, log |-> Append(Recent(log, t, window), t)]

\* RateLimiter.is_rate_limited(key, limit, window) at time t, on the list
\* self.requests[key]: what it returns and the list it leaves
IsRateLimited(log, t, limit, window) ==
    IF Len(Recent(log, t, window)) >= limit
    THEN [limited |-> TRUE, log |-> Recent(log, t, window)]
    ELSE [limited |-> FALSE, log |-> Append(Recent(log, t, window), t)]

\* bounds of the clock: it advances by one of TimeSteps, up to MaxTime
TimeSteps == {30, 60}
MaxTime == 60
\* requests tried from the second address
MaxOther == 1

HttpResponse(ip, path, status, headers) ==
    [kind |-> "http", ip |-> ip, path |-> path, status |-> status,
     headers |-> headers]

Tick ==
    /\ \E dt \in TimeSteps : now + dt <= MaxTime /\ now' = now + dt
    /\ UNCHANGED << storeVars, resp, limiter, calls, hits >>

\* rate_limit_middleware up to its await: an exempt path goes to call_next
\* unchecked; otherwise is_rate_limited, and HTTPException(429) or
\* call_next.  (The coroutine runs on the event loop, so nothing else runs
\* between its awaits.)
RateLimitMiddleware(c) ==
    /\ calls[c].pc = "idle"
    /\ \E << ip, path >> \in Tried :
         LET key == RateLimitKey(ip, path)
             r   == IsRateLimited(limiter[key], now, RateLimit, RateWindow)
         IN  /\ ip # "10.0.0.1" => hits[key] < MaxOther
             /\ hits' = [hits EXCEPT ![key] = IF ip = "10.0.0.1" THEN @ ELSE @ + 1]
             /\ IF path \in ExemptPaths
                THEN /\ calls' = [calls EXCEPT ![c] = [pc |-> "call_next_exempt",
                                                       ip |-> ip, path |-> path]]
                     /\ UNCHANGED << limiter, resp >>
                ELSE /\ limiter' = [limiter EXCEPT ![key] = r.log]
                     /\ IF r.limited
                        THEN /\ resp' = HttpResponse(ip, path, 429, <<>>)
                             /\ calls' = calls
                        ELSE /\ calls' = [calls EXCEPT ![c] = [pc |-> "call_next",
                                                               ip |-> ip, path |-> path]]
                             /\ resp' = resp
    /\ UNCHANGED << storeVars, now >>

\* call_next returned the response: the rate limit headers are added,
\* X-RateLimit-Remaining from the list as it is now
RateLimitReturn(c) ==
    /\ calls[c].pc = "call_next"
    /\ resp' = HttpResponse(calls[c].ip, calls[c].path, 200,
                 << RateLimit,
                    RateLimit - Len(limiter[RateLimitKey(calls[c].ip, calls[c].path)]) >>)
    /\ calls' = [calls EXCEPT ![c] = NoCall]
    /\ UNCHANGED << storeVars, limiter, now, hits >>

\* call_next returned the response of an exempt path
ExemptReturn(c) ==
    /\ calls[c].pc = "call_next_exempt"
    /\ resp' = HttpResponse(calls[c].ip, calls[c].path, 200, <<>>)
    /\ calls' = [calls EXCEPT ![c] = NoCall]
    /\ UNCHANGED << storeVars, limiter, now, hits >>

InitRate ==
    /\ WebIdle
    /\ db = [c \in Range(CollectionNames) |-> EmptyBag]
    /\ indexes = {}
    /\ loader = LoaderIdle
    /\ reqs = [s \in Slots |-> NoReq]
    /\ nreq = 0
    /\ resp = NoResp

NextRate ==
    \/ Tick
    \/ \E c \in Slots : RateLimitMiddleware(c)
    \/ \E c \in Slots : RateLimitReturn(c)
    \/ \E c \in Slots : ExemptReturn(c)

SpecRate == InitRate /\ [][NextRate]_vars

(***************************************************************************)
(* main.py: the application's middleware stack                             *)
(***************************************************************************)
\* app.add_middleware(CORSMiddleware, ...) and @app.middleware("http") on
\* log_requests: the middlewares the application registers
AppMiddlewares == {"CORSMiddleware", "log_requests"}

\* requests tried on one (ip, path) in one behaviour of SpecApp; no time
\* passes in SpecApp, so they all fall in one 60-second window
MaxBurst == 61

\* the status the route answers: health_check pings the store (503 when
\* that fails), list_books answers 200
RouteStatus(path, ping_ok) ==
    IF path = "/healthz" /\ ~ping_ok THEN 503 ELSE 200

\* A request to the application: it passes the registered middlewares
\* (log_requests and CORSMiddleware let every request through) and reaches
\* the route.
AppRequest ==
    \E << ip, path >> \in Tried, ping_ok \in BOOLEAN :
      LET key     == RateLimitKey(ip, path)
          checked == "rate_limit_middleware" \in AppMiddlewares
                        /\ path \notin ExemptPaths
          r       == IsRateLimited(limiter[key], now, RateLimit, RateWindow)
      IN  /\ hits[key] < (IF ip = "10.0.0.1" THEN MaxBurst ELSE MaxOther)
          /\ hits' = [hits EXCEPT ![key] = @ + 1]
          /\ limiter' = IF checked THEN [limiter EXCEPT ![key] = r.log] ELSE limiter
          /\ resp' = IF checked /\ r.limited
                     THEN HttpResponse(ip, path, 429, <<>>)
                     ELSE HttpResponse(ip, path, RouteStatus(path, ping_ok), <<>>)
          /\ UNCHANGED << storeVars, now, calls >>

NextApp == AppRequest

SpecApp == InitRate /\ [][NextApp]_vars

NextLoad ==
    \/ MainStart
    \/ LoadCollectionReadFails
    \/ LoadCollection
    \/ MainCreateIndexes
    \/ MainExitWithErrors

SpecLoad == InitLoad /\ [][NextLoad]_vars

Next ==
    \/ \E s \in Slots : PostRating(s)
    \/ \E s \in Slots : FindBook(s)
    \/ \E s \in Slots : UpdateMatched(s)
    \/ \E s \in Slots : UpdateNoMatch(s)
    \/ \E s \in Slots : UpsertInsert(s)
    \/ GetRatingsSummary
    \/ GetRecommendations

Spec == Init /\ [][Next]_vars

(***************************************************************************)
(* Properties of POST /ratings                                             *)
(***************************************************************************)
\* the copies of ratings documents for the pair (u, b) in a store
PairRows(store, u, b) ==
    BagCardinality([d \in {x \in BagToSet(store["ratings"]) :
                             x.user_id = u /\ x.book_id = b}
                    |-> CopiesIn(d, store["ratings"])])

\* C1: after any number of upsert_rating calls, concurrent ones included,
\* the ratings collection holds at most one row for each (user_id, book_id)
\* pair.
C1_AtMostOneRowPerPair ==
    \A u \in Users, b \in BookIds : PairRows(db, u, b) <= 1

\* the step in which the request of slot s writes and is answered
Written(s) == reqs[s].pc \in {"update", "insert"} /\ reqs'[s].pc = "idle"

\* C2: an authenticated upsert_rating with a valid rating on an existing
\* book reports "created" exactly when no row for the pair existed before
\* it wrote, "updated" otherwise, and after it the rating stored for the
\* pair is the submitted one.
C2_CreatedOrUpdated ==
    [][\A s \in Slots :
         Written(s) =>
           /\ resp'.status = 200
           /\ resp'.result = IF PairRows(db, reqs[s].user_id, reqs[s].book_id) = 0
                             THEN "created" ELSE "updated"
           /\ \A d \in BagToSet(db'["ratings"]) :
                (d.user_id = reqs[s].user_id /\ d.book_id = reqs[s].book_id)
                   => d.rating = reqs[s].rating
           /\ PairRows(db', reqs[s].user_id, reqs[s].book_id) >= 1]_vars

\* C3: an upsert_rating request that is rejected (rating outside 1..5, or
\* no book with the book_id) never reaches the write: the step that answers
\* it leaves the store as it was, and whatever changes the store is a
\* request with a rating in 1..5 for a book that exists, answered 200.
C3_RejectedNeverWrites ==
    [][/\ (resp'.kind = "rating" /\ resp'.status # 200) => db' = db
       /\ db' # db =>
            /\ resp'.kind = "rating" /\ resp'.status = 200
            /\ resp'.rating \in 1..5
            /\ \E d \in BagToSet(db["books"]) : d.book_id = resp'.book_id]_vars

C3_Witness ==
    /\ resp.kind = "rating" /\ resp.key = API_KEY
    /\ \/ resp.status = 422 /\ resp.rating \in {0, 6}
       \/ resp.status = 404 /\ resp.rating \in 1..5
    /\ nreq = MaxRequests
    /\ db["ratings"] # EmptyBag

\* C4: POST /ratings without an x-api-key header is answered 401, with a
\* key other than the configured one 401, and with the configured key and
\* a valid body (a rating in 1..5 for a book that exists) 200/201.
C4_AuthStatus ==
    resp.kind = "rating" =>
       /\ resp.key = NoHeader => resp.status = 401
       /\ resp.key \notin {NoHeader, API_KEY} => resp.status = 401
       /\ ( /\ resp.key = API_KEY /\ resp.rating \in 1..5
            /\ \E d \in BagToSet(db["books"]) : d.book_id = resp.book_id )
            => resp.status \in {200, 201}

(***************************************************************************)
(* Properties of the read endpoints                                        *)
(***************************************************************************)
\* the copies of ratings documents of book b with rating k
BucketRows(b, k) ==
    BagCardinality([d \in {x \in BagToSet(db["ratings"]) :
                             x.book_id = b /\ x.rating = k}
                    |-> CopiesIn(d, db["ratings"])])

BookRows(b) ==
    BagCardinality([d \in {x \in BagToSet(db["ratings"]) : x.book_id = b}
                    |-> CopiesIn(d, db["ratings"])])

\* q[i].field never increases along q
Descending(q, field) ==
    \A i \in 1..Len(q) : \A j \in i..Len(q) : q[i][field] >= q[j][field]

\* C7: get_recommendations returns type "popular" with at most top_k books
\* in descending ratings_count order when the user has no rating >= 4, and
\* otherwise type "based_on_ratings" with at most top_k books in descending
\* average_rating order, none of them a book the user has rated (at any
\* rating value).
C7_Recommendations ==
    resp.kind = "recommendations" =>
       LET liked == \E d \in BagToSet(db["ratings"]) :
                        d.user_id = resp.user_id /\ d.rating >= 4
           rated == {d.book_id : d \in {x \in BagToSet(db["ratings"]) :
                                           x.user_id = resp.user_id}}
           recs  == resp.recommendations
       IN  /\ Len(recs) <= resp.top_k
           /\ \A i \in 1..Len(recs) : recs[i] \in BagToSet(db["books"])
           /\ IF ~liked
              THEN /\ resp.type = "popular"
                   /\ Descending(recs, "ratings_count")
              ELSE /\ resp.type = "based_on_ratings"
                   /\ Descending(recs, "average_rating")
                   /\ \A i \in 1..Len(recs) : recs[i].book_id \notin rated

\* C9: for an existing book get_ratings_summary returns ratings_count = the
\* number of ratings rows of the book and a histogram with exactly the keys
\* 1..5, each bucket the number of those rows with that rating; with no
\* rows it returns average 0, count 0 and an all-zero histogram; after any
\* sequence of upserts.
C9_RatingsSummary ==
    (resp.kind = "summary" /\ resp.status = 200) =>
       /\ resp.ratings_count = BookRows(resp.book_id)
       /\ DOMAIN resp.histogram = 1..5
       /\ \A k \in 1..5 : resp.histogram[k] = BucketRows(resp.book_id, k)
       /\ resp.histogram[1] + resp.histogram[2] + resp.histogram[3]
            + resp.histogram[4] + resp.histogram[5] = resp.ratings_count
       /\ BookRows(resp.book_id) = 0 =>
            /\ resp.average_rating = 0
            /\ resp.histogram = [k \in 1..5 |-> 0]
       /\ (resp.kind = "summary") =>
            (resp.status = 404 <=>
               ~\E d \in BagToSet(db["books"]) : d.book_id = resp.book_id)

\* a summary of a book with rows, computed after an upsert wrote, and the
\* zero state of a book without rows
C9_Witness ==
    /\ resp.kind = "summary" /\ resp.status = 200
    /\ resp.ratings_count = 2
    /\ resp.histogram[2] = 1 /\ resp.histogram[5] = 1
    /\ nreq > 0

(***************************************************************************)
(* Properties of the ingestion script (SpecLoad)                           *)
(***************************************************************************)
\* load_collection reports success exactly when the collection now holds
\* the CSV records and nothing else
LoadSignal ==
    loader.last.collection # "" =>
       (loader.last.ok <=>
          /\ loader.last.read
          /\ db[loader.last.collection] = SeqToBag(loader.last.records))

\* the collections whose load_collection has returned False
FailedLoads == (loader.next - 1) - loader.success_count

\* the indexes change only after the loop, with all five loaded
IndexesAfterAllLoaded ==
    [][indexes' # indexes =>
         /\ loader.next > 5
         /\ loader.success_count = 5
         /\ FailedLoads = 0]_vars

\* C10 as stated: load_collection reports success only when the contents
\* have been replaced wholesale by the CSV records and failure otherwise;
\* main exits non-zero exactly when at least one of the five collections
\* failed to load; the indexes are built only after all five loaded.
C10_ExitExactlyWhenFailed ==
    /\ [](LoadSignal)
    /\ [](loader.pc = "exited" => (loader.exit # 0 <=> FailedLoads > 0))
    /\ IndexesAfterAllLoaded

\* C10 amended: load_collection reports success only when the contents
\* have been replaced wholesale by the CSV records and failure otherwise;
\* main exits non-zero whenever a collection failed to load, and exits 0
\* exactly when all five loaded and create_indexes built every index (it
\* also exits non-zero when create_indexes raises); the indexes are built
\* only after all five loaded.
C10_ExitStatus ==
    /\ [](LoadSignal)
    /\ [](loader.pc = "exited" =>
            /\ FailedLoads > 0 => loader.exit # 0
            /\ loader.exit = 0 <=>
                 (FailedLoads = 0 /\ indexes = {"books", "ratings", "tags", "to_read"}))
    /\ IndexesAfterAllLoaded

\* a run that replaced a non-empty ratings collection and built the indexes
C10_Witness ==
    /\ loader.pc = "exited" /\ loader.exit = 0
    /\ indexes = {"books", "ratings", "tags", "to_read"}
    /\ db["ratings"] = SeqToBag(<< Rating(1, 2, 2), Rating(2, 1, 5) >>)
    /\ \A d \in BagToSet(db["books"]) : d.book_id # 9

(***************************************************************************)
(* Properties of the paginated endpoints (SpecQuery)                       *)
(***************************************************************************)
\* the unpaged result of the request that resp answers
Unpaged ==
    CASE resp.endpoint = "books" ->
           Find(db["books"],
                [d \in Over(db["books"]) |-> BookFilter(resp.params, d)])
      [] resp.endpoint = "authors" ->
           Find(db["books"],
                [d \in Over(db["books"]) |->
                    RegexI(resp.params.author_name, d.authors)])
      [] resp.endpoint = "tags" -> TagsWithCounts

\* its sort key and direction
UnpagedKey(d) ==
    CASE resp.endpoint = "books"   -> SortField(resp.params.sort, d)
      [] resp.endpoint = "authors" -> d.average_rating
      [] resp.endpoint = "tags"    -> d.book_count

UnpagedDirection ==
    IF resp.endpoint = "books" /\ resp.params.order = "asc" THEN 1 ELSE -1

\* C8: for every valid page and page_size, list_books, get_author_books and
\* list_tags return at most page_size items, the items are the slice of
\* the sorted unpaged result that starts at offset (page-1)*page_size, and
\* total is the number of elements of the unpaged filtered set.
C8_Pagination ==
    resp.kind = "page" =>
       LET n     == BagCardinality(Unpaged)
           first == (resp.page - 1) * resp.page_size + 1
           last  == Min2(resp.page * resp.page_size, n)
       IN  /\ Len(resp.items) <= resp.page_size
           /\ resp.total = n
           /\ Len(resp.items) = IF last >= first THEN last - first + 1 ELSE 0
           /\ \E q \in Sorted(Unpaged, [d \in BagToSet(Unpaged) |-> UnpagedKey(d)],
                             UnpagedDirection) :
                 resp.items = SubSeq(q, first, last)

\* a second page that is shorter than page_size, of a filtered list
C8_Witness ==
    /\ resp.kind = "page" /\ resp.endpoint = "books"
    /\ resp.page = 2 /\ resp.page_size = 2
    /\ resp.total = 3 /\ Len(resp.items) = 1
    /\ resp.params.q # <<>>

(***************************************************************************)
(* Properties of rate limiting                                             *)
(***************************************************************************)
\* C5 (SpecApp): of the requests the application serves from one
\* (client IP, path) on a non-exempt path, the 61st inside a 60-second
\* window is answered 429, and requests to the exempt paths are never
\* limited.
C5_SixtyFirstIs429 ==
    resp.kind = "http" =>
       /\ (resp.path \notin {"/healthz", "/metrics", "/docs", "/openapi.json"}
             /\ hits[<< resp.ip, resp.path >>] > 60) => resp.status = 429
       /\ resp.path \in {"/healthz", "/metrics", "/docs", "/openapi.json"}
             => resp.status # 429

\* the timestamps equal to t in a list
CountOf(log, t) == Cardinality({i \in DOMAIN log : log[i] = t})

\* C6 (SpecRate): under every interleaving of concurrently handled
\* requests, the list of a key never holds more than `limit` timestamps
\* inside the window, no timestamp that is still inside the window is
\* lost, and each admitted request adds its own timestamp.
C6_LimiterSafe ==
    /\ [](\A k \in RateKeys :
            Cardinality({i \in DOMAIN limiter[k] : now - limiter[k][i] < 60}) <= 60)
    /\ [][\A k \in RateKeys :
            /\ limiter'[k] # limiter[k] =>
                 \A t \in {limiter[k][i] : i \in DOMAIN limiter[k]} :
                    now' - t < 60 => CountOf(limiter'[k], t) >= CountOf(limiter[k], t)
            /\ \A c \in Slots :
                 ( /\ calls[c].pc = "idle" /\ calls'[c].pc = "call_next"
                   /\ k = << calls'[c].ip, calls'[c].path >> ) =>
                      CountOf(limiter'[k], now) = CountOf(limiter[k], now) + 1]_vars

\* the list of a key is full while a request that was admitted is still
\* being handled, and another request for the key has been refused
C6_Witness ==
    /\ \E c \in Slots : calls[c].pc = "call_next"
                          /\ Len(limiter[<< calls[c].ip, calls[c].path >>]) = 60
                          /\ resp.kind = "http" /\ resp.status = 429
                          /\ resp.ip = calls[c].ip /\ resp.path = calls[c].path
    /\ now = 30

\* the timestamps of a list that are less than 60 seconds old at time t,
\* in the order of the list
InWindow(log, t) == SelectSeq(log, LAMBDA x : t - x < 60)

\* a step in which a request is refused: no call starts or ends and no time
\* passes, and the response is the 429 for the request's key
Refused ==
    /\ calls' = calls /\ now' = now
    /\ << limiter, resp, hits >>' # << limiter, resp, hits >>
    /\ resp'.kind = "http" /\ resp'.status = 429

\* a step in which the request of slot c is admitted
Admitted(c) == calls[c].pc = "idle" /\ calls'[c].pc = "call_next"

\* C11 (SpecRate): a call of is_rate_limited that is refused records no
\* timestamp: it leaves in the list of its key exactly the timestamps less
\* than `window` seconds old and leaves the lists of all other keys as they
\* were.  A request is refused only while `limit` admitted timestamps are
\* inside the window, and admitted otherwise, so a client that keeps
\* sending while limited is admitted again as soon as its oldest admitted
\* request is `window` seconds old.
C11_RefusedRecordsNothing ==
    [][/\ Refused =>
            LET key == << resp'.ip, resp'.path >>
            IN  /\ limiter'[key] = InWindow(limiter[key], now)
                /\ Len(limiter'[key]) = 60
                /\ \A k \in RateKeys \ {key} : limiter'[k] = limiter[k]
       /\ \A c \in Slots :
            Admitted(c) =>
               LET key == << calls'[c].ip, calls'[c].path >>
               IN  /\ Len(InWindow(limiter[key], now)) < 60
                   /\ \A k \in RateKeys \ {key} : limiter'[k] = limiter[k]]_vars

\* a client that was refused while limited has been admitted again at the
\* moment its admitted requests became a window old: the list of its key
\* holds only the new timestamp, while the list of the other key is as it
\* was
C11_Witness ==
    /\ now = 60
    /\ resp.kind = "http" /\ resp.status = 429
    /\ resp.ip = "10.0.0.1" /\ resp.path = "/books"
    /\ limiter[<< "10.0.0.1", "/books" >>] = << 60 >>
    /\ limiter[<< "10.0.0.2", "/books" >>] = << 30 >>
    /\ \E c \in Slots : calls[c] = [pc |-> "call_next", ip |-> "10.0.0.1",
                                    path |-> "/books"]

====
